---- MODULE Spec2Model ----
(***************************************************************************)
(* Model of tap_s3_csv/s3.py: listing and filtering of bucket objects,     *)
(* selection of the files to sample, the per-format decoders, the gzip     *)
(* unwrapper, the sampling orchestrator and the schema of a table.         *)
(*                                                                         *)
(* A path is a sequence of "/"-separated segments and a segment is a       *)
(* sequence of "."-separated parts, so "arch.zip/m1.csv" is                *)
(* << <<"arch","zip">>, <<"m1","csv">> >>.  A row is a record: kind "rec"  *)
(* is a non-empty mapping with the given keys, "blank" an empty CSV row or *)
(* a whitespace-only JSONL line, "empty" a JSONL line holding an empty     *)
(* structure, "bad" content the decoder cannot decode.  v is the row's     *)
(* payload (its line number in the catalogue), which tells rows apart.     *)
(***************************************************************************)
EXTENDS Integers, Sequences, FiniteSets, TLC

VARIABLES
    bucket,                \* the objects list_files_in_bucket yields, in order
    config,                \* since, until, max_files, max_records, sample_rate
    table_spec,            \* search_pattern, key_properties, date_overrides
    skipped_files_count,   \* the module-level counter
    skipped_at_start,      \* its value when the run started
    pc,                    \* "list" | "select" | "sample" | "done"
    li,                    \* next index of bucket the filter reads
    matched_files_count,
    unmatched_files_count,
    pending,               \* the file the filter has just yielded, as a sequence of 0 or 1
    yielded,               \* every file the filter has yielded so far
    sampled_files,         \* the list get_files_to_sample builds
    si,                    \* next index of sampled_files the orchestrator reads
    samples,               \* the rows sample_files has yielded
    log,                   \* one entry per candidate sample_files has handled: what it
                           \* yielded, caught and raised, and the counter before and after
    result,                \* what get_sampled_schema_for_table returned or raised
    dec                    \* a decoder run on its own (specification SpecDec)

vars == << bucket, config, table_spec, skipped_files_count, skipped_at_start, pc, li,
           matched_files_count, unmatched_files_count, pending, yielded,
           sampled_files, si, samples, log, result, dec >>

----------------------------------------------------------------------------
(* Bounds of the model *)

MaxObjects == 2      \* objects in a listing
MaxTime == 3         \* modification times are 1..MaxTime
MaxRate == 2         \* sample rates are 1..MaxRate
MaxFiles == 2        \* max_sample_files is 0..MaxFiles
MaxRecords == 2      \* max_records is 1..MaxRecords
MaxRows == 3         \* rows of an input of a decoder run on its own
MaxPriorSkips == 1   \* files skipped by earlier runs of the process

(* Program constants *)

JSONL_CHECK_ROWS == 5000

None == "None"
NoError == "none"

Min(a, b) == IF a < b THEN a ELSE b

Last(s) == s[Len(s)]

----------------------------------------------------------------------------
(* Names *)

SDC_SOURCE_BUCKET_COLUMN == "_sdc_source_bucket"
SDC_SOURCE_FILE_COLUMN == "_sdc_source_file"
SDC_SOURCE_LINENO_COLUMN == "_sdc_source_lineno"
SDC_EXTRA_COLUMN == "_sdc_extra"

OTHER_FILES == {"csv", "gz", "jsonl", "txt", "parquet"}

\* str.lower() on the parts the catalogue uses
Lower(s) ==
    CASE s = "CSV" -> "csv"
      [] s = "B" -> "b"
      [] s = "README" -> "readme"
      [] OTHER -> s

\* file_key.split("/").pop()
FileName(path) == Last(path)

\* name.split(".").pop().lower(), name.split(".")[-1].lower()
Extension(name) == Lower(Last(name))

\* path.endswith(".tar.gz"): the last segment ends in the parts "tar", "gz" with a
\* "." before them (the comparison is case-sensitive)
EndsWithTarGz(path) ==
    LET n == Last(path)
    IN  Len(n) >= 3 /\ n[Len(n) - 1] = "tar" /\ n[Len(n)] = "gz"

\* name.endswith(".gz")
EndsWithGz(name) == Len(name) >= 2 /\ Last(name) = "gz"

\* "not extension or name.lower() == extension": the name ends with "." or has no "."
NoExtension(name, extension) ==
    extension = "" \/ (Len(name) = 1 /\ Lower(name[1]) = extension)

\* "not extension or s3_path.lower() == extension", for the whole path
NoExtensionPath(path, extension) ==
    extension = "" \/ (Len(path) = 1 /\ Len(path[1]) = 1 /\ Lower(path[1][1]) = extension)

----------------------------------------------------------------------------
(* The catalogue of files: names, sizes and contents *)

Rec(v, keys) == [kind |-> "rec", keys |-> keys, v |-> v]
Blank(v) == [kind |-> "blank", keys |-> {}, v |-> v]
EmptyStruct(v) == [kind |-> "empty", keys |-> {}, v |-> v]
Bad(v) == [kind |-> "bad", keys |-> {}, v |-> v]

\* What utils.get_file_name_from_gzfile does on a gzip stream: it raises
\* AttributeError, returns an empty name, or returns the embedded name
NoGzName == [status |-> "none", name |-> <<>>]
GzRaises == [status |-> "AttributeError", name |-> <<>>]
GzEmptyName == [status |-> "empty", name |-> <<>>]
GzNamed(name) == [status |-> "name", name |-> name]

\* hdr: csv.get_row_iterator finds a header (it returns a falsy value otherwise)
Text(hdr, rows) == [hdr |-> hdr, rows |-> rows, gzname |-> NoGzName, members |-> <<>>]
Gz(gzname, rows) == [hdr |-> TRUE, rows |-> rows, gzname |-> gzname, members |-> <<>>]
Zip(members) == [hdr |-> FALSE, rows |-> <<>>, gzname |-> NoGzName, members |-> members]
Member(name, body) == [name |-> name, body |-> body]

\* a JSONL file longer than the rows the key check reads; only row `pos` has "id"
LongRows(pos) ==
    [i \in 1..(JSONL_CHECK_ROWS + 2) |->
        Rec(i, IF i = pos THEN {"id", "ts"} ELSE {"ts"})]

CsvRows == << Rec(1, {"id", "ts"}), Blank(2), Rec(3, {"id", "ts", SDC_EXTRA_COLUMN}),
              Rec(4, {"id", "ts"}) >>
JsonlRows == << Rec(1, {"id"}), Blank(2), EmptyStruct(3), Rec(4, {"id", "ts"}),
                Rec(5, {"id", SDC_EXTRA_COLUMN}) >>

SmallKeys ==
    { "a.csv", "B.CSV", "bad.csv", "void.csv", "zero.csv", "d.jsonl", "bad.jsonl",
      "blank.jsonl", "report.tar.gz", "anon.gz", "nil.gz", "data.csv.gz", "twice.gz",
      "arch.zip", "README", "setup.exe", "t.parquet", "t0.parquet" }
LongKeys == { "big5000.jsonl", "big5001.jsonl", "big5002.jsonl" }
WindowKeys == { "a.csv", "zero.csv", "setup.exe" }

Path(k) ==
    CASE k = "a.csv" -> << <<"a", "csv">> >>
      [] k = "B.CSV" -> << <<"exports">>, <<"B", "CSV">> >>
      [] k = "bad.csv" -> << <<"bad", "csv">> >>
      [] k = "void.csv" -> << <<"void", "csv">> >>
      [] k = "zero.csv" -> << <<"zero", "csv">> >>
      [] k = "d.jsonl" -> << <<"d", "jsonl">> >>
      [] k = "bad.jsonl" -> << <<"bad", "jsonl">> >>
      [] k = "blank.jsonl" -> << <<"blank", "jsonl">> >>
      [] k = "report.tar.gz" -> << <<"report", "tar", "gz">> >>
      [] k = "anon.gz" -> << <<"anon", "gz">> >>
      [] k = "nil.gz" -> << <<"nil", "gz">> >>
      [] k = "data.csv.gz" -> << <<"data", "csv", "gz">> >>
      [] k = "twice.gz" -> << <<"twice", "gz">> >>
      [] k = "arch.zip" -> << <<"arch", "zip">> >>
      [] k = "README" -> << <<"README">> >>
      [] k = "setup.exe" -> << <<"setup", "exe">> >>
      [] k = "t.parquet" -> << <<"t", "parquet">> >>
      [] k = "t0.parquet" -> << <<"t0", "parquet">> >>
      [] k = "big5000.jsonl" -> << <<"big5000", "jsonl">> >>
      [] k = "big5001.jsonl" -> << <<"big5001", "jsonl">> >>
      [] k = "big5002.jsonl" -> << <<"big5002", "jsonl">> >>

Body(k) ==
    CASE k = "a.csv" -> Text(TRUE, CsvRows)
      [] k = "B.CSV" -> Text(TRUE, << Rec(1, {"id"}), Rec(2, {"id"}) >>)
      [] k = "bad.csv" -> Text(TRUE, << Rec(1, {"id"}), Bad(2), Rec(3, {"id"}) >>)
      [] k = "void.csv" -> Text(FALSE, << >>)
      [] k = "zero.csv" -> Text(FALSE, << >>)
      [] k = "d.jsonl" -> Text(TRUE, JsonlRows)
      [] k = "bad.jsonl" -> Text(TRUE, << Rec(1, {"id", "ts"}), Bad(2), Rec(3, {"id", "ts"}) >>)
      [] k = "blank.jsonl" -> Text(TRUE, << Blank(1) >>)
      [] k = "report.tar.gz" -> Gz(GzRaises, << >>)
      [] k = "anon.gz" -> Gz(GzRaises, CsvRows)
      [] k = "nil.gz" -> Gz(GzEmptyName, << >>)
      [] k = "data.csv.gz" -> Gz(GzNamed(<<"data", "csv">>), CsvRows)
      [] k = "twice.gz" -> Gz(GzNamed(<<"x", "csv", "gz">>), << >>)
      [] k = "arch.zip" ->
            Zip(<< Member(<<"m1", "csv">>, Text(TRUE, << Rec(1, {"id"}) >>)),
                   Member(<<"m2", "exe">>, Text(FALSE, << >>)),
                   Member(<<"m3", "jsonl">>, Text(TRUE, << Rec(1, {"id", "ts"}) >>)),
                   Member(<<"m4", "tar", "gz">>, Gz(GzRaises, << >>)),
                   Member(<<"m5", "txt">>, Text(TRUE, << Rec(1, {"id"}), Rec(2, {"ts"}) >>)) >>)
      [] k = "README" -> Text(TRUE, << Rec(1, {"id"}) >>)
      [] k = "setup.exe" -> Text(FALSE, << Bad(1) >>)
      [] k = "t.parquet" -> Text(TRUE, << Rec(1, {"id", "ts"}), Rec(2, {"id", "ts"}),
                                           Rec(3, {"id", "ts"}) >>)
      [] k = "t0.parquet" -> Text(TRUE, << >>)
      [] k = "big5000.jsonl" -> Text(TRUE, LongRows(JSONL_CHECK_ROWS))
      [] k = "big5001.jsonl" -> Text(TRUE, LongRows(JSONL_CHECK_ROWS + 1))
      [] k = "big5002.jsonl" -> Text(TRUE, LongRows(JSONL_CHECK_ROWS + 2))

\* s3_object['Size']: only zero.csv is a zero-byte object
Size(k) == IF k = "zero.csv" THEN 0 ELSE 1

\* matcher.search(key) for the patterns of the model: "." matches every key,
\* "\.csv$" the keys that end in ".csv", "^$" none
Matches(pattern, k) ==
    CASE pattern = "." -> TRUE
      [] pattern = "\\.csv$" -> Last(Last(Path(k))) = "csv" /\ Len(Last(Path(k))) >= 2
      [] pattern = "^$" -> FALSE

Patterns == { ".", "\\.csv$", "^$" }

\* get_file_handle(config, file_key): the body of the object
get_file_handle(k) == [name |-> << >>, body |-> Body(k)]

\* compression.infer(...): the members of a zip archive, in archive order
Infer(file_handle) == file_handle.body.members

----------------------------------------------------------------------------
(* The decoders.  A decoder is a generator: its state is the row counter, the  *)
(* rows yielded so far and the error that ended it, if any.                    *)

DecoderStart == [current_row |-> 0, out |-> << >>, err |-> NoError]

\* row.pop(csv.SDC_EXTRA_COLUMN) when the row has a value for it
StripExtra(row) == [row EXCEPT !.keys = @ \ {SDC_EXTRA_COLUMN}]

\* one iteration of the loop of get_records_for_csv; a row the iterator cannot
\* decode raises UnicodeDecodeError out of the for statement
get_records_for_csv(st, row, sample_rate) ==
    IF row.kind = "bad"
    THEN [st EXCEPT !.err = "UnicodeDecodeError"]
    ELSE IF row.kind # "rec"
    THEN [st EXCEPT !.current_row = @ + 1]
    ELSE IF st.current_row % sample_rate = 0
    THEN [st EXCEPT !.out = Append(@, StripExtra(row)), !.current_row = @ + 1]
    ELSE [st EXCEPT !.current_row = @ + 1]

\* Faulty variant: a blank line or an empty structure does not advance the counter
get_records_for_jsonl_skip_uncounted(st, row, sample_rate) ==
    IF st.current_row % sample_rate = 0
    THEN IF row.kind = "bad"
         THEN [st EXCEPT !.err = "JSONDecodeError"]
         ELSE IF row.kind = "rec"
         THEN [st EXCEPT !.out = Append(@, row), !.current_row = @ + 1]
         ELSE st
    ELSE [st EXCEPT !.current_row = @ + 1]

\* one iteration of the loop of get_records_for_jsonl; only a sampled line is
\* decoded and parsed
get_records_for_jsonl(st, row, sample_rate) ==
    IF st.current_row % sample_rate = 0
    THEN IF row.kind = "bad"
         THEN [st EXCEPT !.err = "JSONDecodeError"]
         ELSE IF row.kind = "rec"
         THEN [st EXCEPT !.out = Append(@, row), !.current_row = @ + 1]
         ELSE [st EXCEPT !.current_row = @ + 1]
    ELSE [st EXCEPT !.current_row = @ + 1]

\* one iteration of the innermost loop of get_records_for_parquet
get_records_for_parquet(st, row, sample_rate) ==
    IF st.current_row % sample_rate = 0
    THEN [st EXCEPT !.out = Append(@, row), !.current_row = @ + 1]
    ELSE st

DecoderStep(fmt, st, row, sample_rate) ==
    CASE fmt = "csv" -> get_records_for_csv(st, row, sample_rate)
      [] fmt = "jsonl" -> get_records_for_jsonl(st, row, sample_rate)
      [] fmt = "parquet" -> get_records_for_parquet(st, row, sample_rate)

\* A generator and a list, as sample_file returns them: fmt "list" is the empty list
EmptyList == [fmt |-> "list", rows |-> << >>, sample_rate |-> 1, path |-> << >>]
Generator(fmt, rows, sample_rate, path) ==
    [fmt |-> fmt, rows |-> rows, sample_rate |-> sample_rate, path |-> path]

\* The consumer pulls `limit` rows at most: the generator runs over rows lo..hi
\* until it has yielded that many, has raised, or the input ends.
RECURSIVE Drive(_, _, _, _, _)
Drive(gen, limit, lo, hi, st) ==
    IF lo > hi \/ st.err # NoError \/ Len(st.out) >= limit
    THEN st
    ELSE IF lo = hi
    THEN DecoderStep(gen.fmt, st, gen.rows[lo], gen.sample_rate)
    ELSE LET mid == (lo + hi) \div 2
         IN  Drive(gen, limit, mid + 1, hi, Drive(gen, limit, lo, mid, st))

\* itertools.islice(gen, limit), consumed to its end
Pull(gen, limit) ==
    IF gen.fmt = "list"
    THEN DecoderStart
    ELSE Drive(gen, limit, 1, Len(gen.rows), DecoderStart)

----------------------------------------------------------------------------
(* sample_file and what it calls.  A call either raises (err) or returns a     *)
(* generator or list (gen); skips is what it added to skipped_files_count.     *)

Returned(gen, skips) == [err |-> NoError, skips |-> skips, gen |-> gen]
Raised(err) == [err |-> err, skips |-> 0, gen |-> EmptyList]
Skipped == Returned(EmptyList, 1)

\* all_keys: the keys of the records the loop reads before it breaks
AllKeys(records) == UNION { records[i].keys : i \in 1..Len(records) }

\* The loop reads a record, counts it, adds its keys, and only then breaks when
\* rows > 5000: it reads JSONL_CHECK_ROWS + 1 records at most.  The result is the
\* error the function raises (or the decoder it drains raises), or NoError.
check_key_properties_and_date_overrides_for_jsonl_file(tspec, jsonl_sample_records, s3_path) ==
    LET read == Pull(jsonl_sample_records, JSONL_CHECK_ROWS + 1)
        all_keys == AllKeys(read.out)
    IN  IF read.err # NoError
        THEN read.err
        ELSE IF tspec.key_properties # {} /\ ~(tspec.key_properties \subseteq all_keys)
        THEN "DataQualityError"
        ELSE IF tspec.date_overrides # {} /\ ~(tspec.date_overrides \subseteq all_keys)
        THEN "DataQualityError"
        ELSE NoError

\* peek(iterable): the first row, or the error raised on the way to it
peek(gen) == Pull(gen, 1)

RECURSIVE sample_file(_, _, _, _, _, _, _)

\* A call of sample_file with the positional arguments args: Python raises
\* TypeError when their number is not the number of parameters
Call_sample_file(args) ==
    IF Len(args) # 7
    THEN Raised("TypeError")
    ELSE sample_file(args[1], args[2], args[3], args[4], args[5], args[6], args[7])

\* Faulty variant: a gzip stream without a name is dropped without being counted
sampling_gz_file_uncounted(tspec, s3_path, file_handle, sample_rate, cfg) ==
    LET gz == file_handle.body.gzname
        inner == [name |-> << >>,
                  body |-> [file_handle.body EXCEPT !.gzname = NoGzName]]
    IN  IF EndsWithTarGz(s3_path)
        THEN Skipped
        ELSE IF gz.status = "none"
        THEN Raised("OSError")
        ELSE IF gz.status = "AttributeError"
        THEN Returned(EmptyList, 0)
        ELSE IF gz.status = "name"
        THEN IF EndsWithGz(gz.name)
             THEN Skipped
             ELSE Call_sample_file(<< tspec, Append(s3_path, gz.name), inner,
                                      sample_rate, Extension(gz.name), cfg >>)
        ELSE Raised("GzFileError")

sampling_gz_file(tspec, s3_path, file_handle, sample_rate, cfg) ==
    LET gz == file_handle.body.gzname
        inner == [name |-> << >>,
                  body |-> [file_handle.body EXCEPT !.gzname = NoGzName]]
    IN  IF EndsWithTarGz(s3_path)
        THEN Skipped
        ELSE IF gz.status = "none"
        THEN Raised("OSError")
        ELSE IF gz.status = "AttributeError"
        THEN Skipped
        ELSE IF gz.status = "name"
        THEN IF EndsWithGz(gz.name)
             THEN Skipped
             ELSE Call_sample_file(<< tspec, Append(s3_path, gz.name), inner,
                                      sample_rate, Extension(gz.name), cfg >>)
        ELSE Raised("GzFileError")

sample_file(tspec, s3_bucket, s3_path, file_handle, sample_rate, extension, cfg) ==
    IF extension = None \/ NoExtensionPath(s3_path, extension)
    THEN Skipped
    ELSE IF extension \in {"csv", "txt"}
    THEN IF file_handle.body.hdr
         THEN Returned(Generator("csv", file_handle.body.rows, sample_rate, s3_path), 0)
         ELSE Skipped
    ELSE IF extension = "gz"
    THEN sampling_gz_file(tspec, s3_path, file_handle, sample_rate, cfg)
    ELSE IF extension = "jsonl"
    THEN LET records == Generator("jsonl", file_handle.body.rows, sample_rate, s3_path)
             first == peek(records)
             checked == check_key_properties_and_date_overrides_for_jsonl_file(
                            tspec, records, s3_path)
         IN  IF first.err # NoError
             THEN Raised(first.err)
             ELSE IF first.out = << >>
             THEN Skipped
             ELSE IF checked # NoError
             THEN Raised(checked)
             ELSE Returned(records, 0)
    ELSE IF extension = "parquet"
    THEN LET records == Generator("parquet", file_handle.body.rows, sample_rate, s3_path)
             first == peek(records)
         IN  IF first.out = << >>
             THEN Skipped
             ELSE Raised("NameError")   \* jsonl_sample_records is not defined
    ELSE IF extension = "zip"
    THEN Skipped
    ELSE Skipped

----------------------------------------------------------------------------
(* The filter, the selector and the orchestrator, one loop iteration each *)

\* Faulty variant: the upper bound is inclusive
InWindow_until_inclusive(modified_since, modified_until, last_modified) ==
    /\ (modified_since = << >> \/ modified_since[1] < last_modified)
    /\ (modified_until = << >> \/ last_modified <= modified_until[1])

\* an absent bound (None) is << >>, a bound t is << t >>
InWindow(modified_since, modified_until, last_modified) ==
    /\ (modified_since = << >> \/ modified_since[1] < last_modified)
    /\ (modified_until = << >> \/ last_modified < modified_until[1])

\* Faulty variant: a match is counted only when the object is in the window
get_input_files_for_table_window_counted(s3_object, tspec, cfg) ==
    IF Size(s3_object.Key) = 0
    THEN [skips |-> 1, matched |-> 0, unmatched |-> 1, yields |-> << >>]
    ELSE IF /\ Matches(tspec.search_pattern, s3_object.Key)
            /\ InWindow(cfg.since, cfg.until, s3_object.LastModified)
    THEN [skips |-> 0, matched |-> 1, unmatched |-> 0,
          yields |-> << [key |-> s3_object.Key,
                         last_modified |-> s3_object.LastModified] >>]
    ELSE [skips |-> 0, matched |-> 0, unmatched |-> 1, yields |-> << >>]

\* One iteration of the loop of get_input_files_for_table over s3_object: what it
\* adds to the three counters and what it yields (a sequence of 0 or 1 files)
get_input_files_for_table(s3_object, tspec, cfg) ==
    IF Size(s3_object.Key) = 0
    THEN [skips |-> 1, matched |-> 0, unmatched |-> 1, yields |-> << >>]
    ELSE IF Matches(tspec.search_pattern, s3_object.Key)
    THEN [skips |-> 0, matched |-> 1, unmatched |-> 0,
          yields |-> IF InWindow(cfg.since, cfg.until, s3_object.LastModified)
                     THEN << [key |-> s3_object.Key,
                              last_modified |-> s3_object.LastModified] >>
                     ELSE << >>]
    ELSE [skips |-> 0, matched |-> 0, unmatched |-> 1, yields |-> << >>]

\* the members of a zip archive that become candidates
Unzipped(file_key, files) ==
    LET keep(de_file) == /\ Extension(de_file.name) \in OTHER_FILES
                         /\ ~EndsWithTarGz(<< de_file.name >>)
        entry(de_file) == [type |-> "unzipped", s3_path |-> Path(file_key),
                           file_handle |-> de_file, extension |-> None]
        kept == SelectSeq(files, keep)
    IN  [i \in 1..Len(kept) |-> entry(kept[i])]

\* Faulty variant: a .tar.gz object is dropped without being counted as skipped
get_files_to_sample_uncounted(files, s3_file) ==
    LET file_key == s3_file.key
        file_name == FileName(Path(file_key))
        extension == Extension(file_name)
        file_handle == get_file_handle(file_key)
    IN  IF NoExtension(file_name, extension)
        THEN [sampled_files |-> files, skips |-> 1]
        ELSE IF EndsWithTarGz(Path(file_key))
        THEN [sampled_files |-> files, skips |-> 0]
        ELSE IF extension = "zip"
        THEN [sampled_files |-> files \o Unzipped(file_key, Infer(file_handle)),
              skips |-> 0]
        ELSE IF extension \in OTHER_FILES
        THEN [sampled_files |->
                  Append(files, [type |-> None, s3_path |-> Path(file_key),
                                 file_handle |-> file_handle, extension |-> extension]),
              skips |-> 0]
        ELSE [sampled_files |-> files, skips |-> 1]

\* One iteration of the loop of get_files_to_sample, past the max_files test:
\* the list it builds and what it adds to skipped_files_count
get_files_to_sample(files, s3_file) ==
    LET file_key == s3_file.key
        file_name == FileName(Path(file_key))
        extension == Extension(file_name)
        file_handle == get_file_handle(file_key)
    IN  IF NoExtension(file_name, extension)
        THEN [sampled_files |-> files, skips |-> 1]
        ELSE IF EndsWithTarGz(Path(file_key))
        THEN [sampled_files |-> files, skips |-> 1]
        ELSE IF extension = "zip"
        THEN [sampled_files |-> files \o Unzipped(file_key, Infer(file_handle)),
              skips |-> 0]
        ELSE IF extension \in OTHER_FILES
        THEN [sampled_files |->
                  Append(files, [type |-> None, s3_path |-> Path(file_key),
                                 file_handle |-> file_handle, extension |-> extension]),
              skips |-> 0]
        ELSE [sampled_files |-> files, skips |-> 1]

\* Faulty variant: only the JSON parse failure is caught
CaughtErrors_json_only == {"JSONDecodeError"}

\* except (UnicodeDecodeError, json.decoder.JSONDecodeError)
CaughtErrors == {"UnicodeDecodeError", "JSONDecodeError"}

\* One iteration of the loop of sample_files over s3_file: the rows it yields, what
\* it adds to skipped_files_count, the error it caught and the error it let through
sample_files(cfg, tspec, s3_file) ==
    LET unzipped == s3_file.type = "unzipped"
        file_handle == s3_file.file_handle
        s3_path == IF unzipped THEN Append(s3_file.s3_path, file_handle.name)
                   ELSE s3_file.s3_path
        extension == IF unzipped THEN Extension(file_handle.name) ELSE s3_file.extension
        call == Call_sample_file(<< tspec, cfg.bucket, s3_path, file_handle,
                                    cfg.sample_rate, extension, cfg >>)
        pulled == Pull(call.gen, cfg.max_records)
        err == IF call.err # NoError THEN call.err ELSE pulled.err
        rows == IF call.err # NoError THEN << >> ELSE pulled.out
    IN  [s3_path |-> s3_path, extension |-> extension, rows |-> rows,
         skips |-> call.skips + (IF err \in CaughtErrors THEN 1 ELSE 0),
         caught |-> IF err \in CaughtErrors THEN err ELSE NoError,
         raised |-> IF err \in CaughtErrors THEN NoError ELSE err]

\* Faulty variant: every candidate of the list is handled
Selected_uncapped(files, max_files) == Len(files)

\* itertools.islice(get_files_to_sample(...), max_files): how many candidates
Selected(files, max_files) == Min(Len(files), max_files)

----------------------------------------------------------------------------
(* The schema.  A dict is a function from keys to values; a value is tagged as *)
(* a string, a list or a dict (isinstance(v, dict)).                           *)

EmptyDict == [k \in {} |-> 0]
StrV(s) == [tag |-> "str", s |-> s, d |-> EmptyDict]
ListV(s) == [tag |-> "list", s |-> s, d |-> EmptyDict]
DictV(d) == [tag |-> "dict", s |-> "", d |-> d]

\* Faulty variant: the keys that only `second` has are not added
merge_dicts_common_keys(first, second) ==
    [key \in DOMAIN first |->
        IF key \in DOMAIN second THEN second[key] ELSE first[key]]

RECURSIVE merge_dicts(_, _)
merge_dicts(first, second) ==
    [key \in DOMAIN first \cup DOMAIN second |->
        IF key \in DOMAIN second
        THEN IF key \in DOMAIN first
             THEN IF first[key].tag = "dict" /\ second[key].tag = "dict"
                  THEN DictV(merge_dicts(first[key].d, second[key].d))
                  ELSE second[key]
             ELSE second[key]
        ELSE first[key]]

metadata_schema ==
    [c \in {SDC_SOURCE_BUCKET_COLUMN, SDC_SOURCE_FILE_COLUMN,
            SDC_SOURCE_LINENO_COLUMN, SDC_EXTRA_COLUMN} |->
        CASE c = SDC_SOURCE_LINENO_COLUMN -> DictV([t \in {"type"} |-> StrV("integer")])
          [] c = SDC_EXTRA_COLUMN ->
                DictV([t \in {"type", "items"} |->
                          IF t = "type" THEN StrV("array")
                          ELSE DictV([a \in {"anyOf"} |-> ListV("object|string")])])
          [] OTHER -> DictV([t \in {"type"} |-> StrV("string")])]

\* conversion.generate_schema(samples, table_spec): one type descriptor for each
\* field observed in the samples
generate_schema(rows, tspec) ==
    [f \in AllKeys(rows) |-> DictV([t \in {"type"} |-> ListV("null|inferred")])]

NoResult == [kind |-> "none", error |-> NoError, properties |-> EmptyDict]
Failed(err) == [kind |-> "error", error |-> err, properties |-> EmptyDict]
Schema(properties) == [kind |-> "schema", error |-> NoError, properties |-> properties]

\* get_sampled_schema_for_table, once sample_files is exhausted
get_sampled_schema_for_table(rows, tspec) ==
    IF rows = << >>
    THEN Schema(EmptyDict)
    ELSE Schema(merge_dicts(generate_schema(rows, tspec), metadata_schema))

----------------------------------------------------------------------------
(* The sampling run *)

NoDecoder == [fmt |-> "none", rows |-> << >>, groups |-> << >>, sample_rate |-> 1,
              i |-> 0,
              st |-> DecoderStart]

\* the filter reads the next object of the listing
ListObject ==
    /\ pc = "list"
    /\ li <= Len(bucket)
    /\ LET step == get_input_files_for_table(bucket[li], table_spec, config)
       IN  /\ skipped_files_count' = skipped_files_count + step.skips
           /\ matched_files_count' = matched_files_count + step.matched
           /\ unmatched_files_count' = unmatched_files_count + step.unmatched
           /\ pending' = step.yields
           /\ yielded' = yielded \o step.yields
           /\ pc' = IF step.yields = << >> THEN "list" ELSE "select"
    /\ li' = li + 1
    /\ UNCHANGED << bucket, config, table_spec, skipped_at_start, sampled_files, si,
                    samples, log, result, dec >>

\* the listing is exhausted: the filter raises when nothing matched, and ends
\* otherwise, which ends the loop of get_files_to_sample
ListEnd ==
    /\ pc = "list"
    /\ li > Len(bucket)
    /\ IF matched_files_count = 0
       THEN pc' = "done" /\ result' = Failed("NoFilesFound")
       ELSE pc' = "sample" /\ result' = result
    /\ UNCHANGED << bucket, config, table_spec, skipped_files_count, skipped_at_start,
                    li, matched_files_count, unmatched_files_count, pending, yielded,
                    sampled_files, si, samples, log, dec >>

\* get_files_to_sample handles the file the filter yielded
SelectFile ==
    /\ pc = "select"
    /\ IF Len(sampled_files) >= config.max_files
       THEN /\ pc' = "sample"
            /\ UNCHANGED << sampled_files, skipped_files_count >>
       ELSE LET step == get_files_to_sample(sampled_files, pending[1])
            IN  /\ sampled_files' = step.sampled_files
                /\ skipped_files_count' = skipped_files_count + step.skips
                /\ pc' = "list"
    /\ pending' = << >>
    /\ UNCHANGED << bucket, config, table_spec, skipped_at_start, li,
                    matched_files_count, unmatched_files_count, yielded, si, samples,
                    log, result, dec >>

\* sample_files handles the next candidate
SampleNext ==
    /\ pc = "sample"
    /\ si <= Selected(sampled_files, config.max_files)
    /\ LET step == sample_files(config, table_spec, sampled_files[si])
       IN  /\ samples' = samples \o step.rows
           /\ skipped_files_count' = skipped_files_count + step.skips
           /\ log' = Append(log, [s3_path |-> step.s3_path, extension |-> step.extension,
                                  index |-> si, rows |-> step.rows,
                                  skipped_before |-> skipped_files_count,
                                  skipped_after |-> skipped_files_count',
                                  caught |-> step.caught, raised |-> step.raised])
           /\ IF step.raised # NoError
              THEN pc' = "done" /\ result' = Failed(step.raised)
              ELSE pc' = pc /\ result' = result
    /\ si' = si + 1
    /\ UNCHANGED << bucket, config, table_spec, skipped_at_start, li,
                    matched_files_count, unmatched_files_count, pending, yielded,
                    sampled_files, dec >>

\* sample_files is exhausted: get_sampled_schema_for_table returns the schema
Finish ==
    /\ pc = "sample"
    /\ si > Selected(sampled_files, config.max_files)
    /\ pc' = "done"
    /\ result' = get_sampled_schema_for_table(samples, table_spec)
    /\ UNCHANGED << bucket, config, table_spec, skipped_files_count, skipped_at_start,
                    li, matched_files_count, unmatched_files_count, pending, yielded,
                    sampled_files, si, samples, log, dec >>

Next == ListObject \/ ListEnd \/ SelectFile \/ SampleNext \/ Finish

\* The listings of at most n objects with keys in K and times in T; a bucket
\* holds a key once
RECURSIVE Listings(_, _, _)
Listings(K, T, n) ==
    IF n = 0
    THEN { << >> }
    ELSE LET shorter == Listings(K, T, n - 1)
         IN  shorter \cup
             UNION { { Append(b, [Key |-> k, LastModified |-> t]) :
                           k \in K \ { b[i].Key : i \in 1..Len(b) }, t \in T } :
                     b \in { x \in shorter : Len(x) = n - 1 } }

Optional(S) == { << >> } \cup { << x >> : x \in S }

StartRun(b, cfg, tspec, skipped) ==
    /\ bucket = b
    /\ config = cfg
    /\ table_spec = tspec
    /\ skipped_files_count = skipped
    /\ skipped_at_start = skipped
    /\ pc = "list"
    /\ li = 1
    /\ matched_files_count = 0
    /\ unmatched_files_count = 0
    /\ pending = << >>
    /\ yielded = << >>
    /\ sampled_files = << >>
    /\ si = 1
    /\ samples = << >>
    /\ log = << >>
    /\ result = NoResult
    /\ dec = NoDecoder

TableSpecs ==
    { [search_pattern |-> ".", key_properties |-> {}, date_overrides |-> {}],
      [search_pattern |-> ".", key_properties |-> {"id"}, date_overrides |-> {}],
      [search_pattern |-> ".", key_properties |-> {}, date_overrides |-> {"ts"}] }

\* Runs over the files of every kind, all inside the window
InitFiles ==
    \E b \in Listings(SmallKeys, {2}, MaxObjects), tspec \in TableSpecs,
       mf \in 0..MaxFiles, mr \in 1..MaxRecords, sr \in 1..MaxRate :
        StartRun(b, [bucket |-> "bucket", since |-> << 1 >>, until |-> << >>,
                     max_files |-> mf, max_records |-> mr, sample_rate |-> sr],
                 tspec, 0)

\* Runs over every window and pattern, and a counter earlier runs have raised
InitWindow ==
    \E b \in Listings(WindowKeys, 1..MaxTime, MaxObjects), pattern \in Patterns,
       since \in Optional(1..MaxTime), until \in Optional(1..MaxTime),
       skipped \in 0..MaxPriorSkips :
        StartRun(b, [bucket |-> "bucket", since |-> since, until |-> until,
                     max_files |-> MaxFiles, max_records |-> MaxRecords,
                     sample_rate |-> 1],
                 [search_pattern |-> pattern, key_properties |-> {},
                  date_overrides |-> {}], skipped)

\* Runs over one JSONL file longer than the key check reads
InitLong ==
    \E k \in LongKeys, tspec \in TableSpecs, sr \in 1..MaxRate :
        StartRun(<< [Key |-> k, LastModified |-> 2] >>,
                 [bucket |-> "bucket", since |-> << 1 >>, until |-> << >>,
                  max_files |-> 1, max_records |-> MaxRecords, sample_rate |-> sr],
                 tspec, 0)

Init == InitFiles \/ InitWindow \/ InitLong

Spec == Init /\ [][Next]_vars

----------------------------------------------------------------------------
(* A decoder run on its own: a consumer drains the generator row by row *)

RowsOf(fmt, n) ==
    LET kinds == IF fmt = "csv" THEN {"rec", "extra", "blank", "bad"}
                 ELSE {"rec", "blank", "empty", "bad"}
        row(kind, v) ==
            CASE kind = "rec" -> Rec(v, {"id"})
              [] kind = "extra" -> Rec(v, {"id", SDC_EXTRA_COLUMN})
              [] kind = "blank" -> Blank(v)
              [] kind = "empty" -> EmptyStruct(v)
              [] kind = "bad" -> Bad(v)
    IN  { [i \in 1..n |-> row(ks[i], i)] : ks \in [1..n -> kinds] }

\* The batches that hold rows lo..hi of a Parquet file, in every way of cutting
\* them (table.to_batches()); a batch is a sequence of rows
RECURSIVE BatchesOf(_, _)
BatchesOf(lo, hi) ==
    IF lo > hi
    THEN { << >> }
    ELSE UNION { { << [j \in 1..(m - lo + 1) |-> Rec(lo + j - 1, {"id"})] >> \o rest :
                       rest \in BatchesOf(m + 1, hi) } :
                 m \in lo..hi }

\* The row groups that hold rows lo..hi, in every way of cutting them
\* (parquet_file.read_row_group(i)); a row group is a sequence of batches
RECURSIVE RowGroupsOf(_, _)
RowGroupsOf(lo, hi) ==
    IF lo > hi
    THEN { << >> }
    ELSE UNION { { << g >> \o rest :
                       g \in BatchesOf(lo, m), rest \in RowGroupsOf(m + 1, hi) } :
                 m \in lo..hi }

RECURSIVE Concat(_)
Concat(ss) == IF ss = << >> THEN << >> ELSE Head(ss) \o Concat(Tail(ss))

\* the rows in the order the three nested loops of get_records_for_parquet reach
\* them: row groups, then batches, then rows
ParquetRows(groups) == Concat([g \in 1..Len(groups) |-> Concat(groups[g])])

InitDec ==
    /\ \/ \E fmt \in {"csv", "jsonl"}, n \in 0..MaxRows, sr \in 1..MaxRate :
            \E rows \in RowsOf(fmt, n) :
               dec = [fmt |-> fmt, rows |-> rows, groups |-> << >>,
                      sample_rate |-> sr, i |-> 0, st |-> DecoderStart]
       \/ \E n \in 0..MaxRows, sr \in 1..MaxRate :
            \E groups \in RowGroupsOf(1, n) :
               dec = [fmt |-> "parquet", rows |-> ParquetRows(groups),
                      groups |-> groups, sample_rate |-> sr, i |-> 0,
                      st |-> DecoderStart]
    /\ bucket = << >>
    /\ config = [bucket |-> "bucket", since |-> << >>, until |-> << >>,
                 max_files |-> 0, max_records |-> 1, sample_rate |-> 1]
    /\ table_spec = [search_pattern |-> ".", key_properties |-> {},
                     date_overrides |-> {}]
    /\ skipped_files_count = 0
    /\ skipped_at_start = 0
    /\ pc = "decode"
    /\ li = 1
    /\ matched_files_count = 0
    /\ unmatched_files_count = 0
    /\ pending = << >>
    /\ yielded = << >>
    /\ sampled_files = << >>
    /\ si = 1
    /\ samples = << >>
    /\ log = << >>
    /\ result = NoResult

\* the generator handles the next row of its input; i counts the rows it has
\* handled without raising
DecodeRow ==
    /\ pc = "decode"
    /\ dec.i < Len(dec.rows)
    /\ dec.st.err = NoError
    /\ LET st == DecoderStep(dec.fmt, dec.st, dec.rows[dec.i + 1], dec.sample_rate)
       IN  dec' = [dec EXCEPT !.st = st,
                              !.i = IF st.err = NoError THEN @ + 1 ELSE @]
    /\ UNCHANGED << bucket, config, table_spec, skipped_files_count, skipped_at_start,
                    pc, li, matched_files_count, unmatched_files_count, pending,
                    yielded, sampled_files, si, samples, log, result >>

NextDec == DecodeRow

SpecDec == InitDec /\ [][NextDec]_vars

----------------------------------------------------------------------------
(* Properties of the sampling run (specification Spec) *)

NoObjectMatches ==
    \A i \in 1..Len(bucket) : ~Matches(table_spec.search_pattern, bucket[i].Key)

SomeNonEmptyMatches ==
    \E i \in 1..Len(bucket) :
        Size(bucket[i].Key) > 0 /\ Matches(table_spec.search_pattern, bucket[i].Key)

\* C1: when no listed object has a key matching search_pattern, the run does
\* nothing but read the listing and then fails with the no-match error, raised
\* once the listing is exhausted, and never returns a schema; when a non-empty
\* object matches the pattern, the no-match error is never raised.
C1_NoMatchError ==
    /\ NoObjectMatches =>
          \/ pc = "list" /\ result = NoResult
          \/ /\ pc = "done"
             /\ result = Failed("NoFilesFound")
             /\ li = Len(bucket) + 1
             /\ samples = << >>
    /\ SomeNonEmptyMatches => result.error # "NoFilesFound"

C1_Witness ==
    /\ pc = "done"
    /\ result = Failed("NoFilesFound")
    /\ NoObjectMatches
    /\ \E i \in 1..Len(bucket) : Size(bucket[i].Key) > 0

\* The bucket holds only report.tar.gz, non-empty, matching the pattern and inside
\* the window; the counter starts at 0 and max_files is at least 1.
OnlyTarGz ==
    /\ Len(bucket) = 1
    /\ bucket[1].Key = "report.tar.gz"
    /\ Size(bucket[1].Key) > 0
    /\ Matches(table_spec.search_pattern, bucket[1].Key)
    /\ InWindow(config.since, config.until, bucket[1].LastModified)
    /\ skipped_at_start = 0
    /\ config.max_files >= 1

\* C2, as stated: with only report.tar.gz in the bucket the run skips the file,
\* leaves the counter at 1 and fails with the no-match error.
C2_Original ==
    (OnlyTarGz /\ pc = "done") =>
        skipped_files_count = 1 /\ result = Failed("NoFilesFound")

\* C2, amended: with only report.tar.gz in the bucket the run skips the file,
\* leaves the counter at 1, selects no candidate and returns the schema with
\* empty properties; it raises no error.
C2_TarGzSkippedEmptySchema ==
    (OnlyTarGz /\ pc = "done") =>
        /\ skipped_files_count = 1
        /\ sampled_files = << >>
        /\ matched_files_count = 1
        /\ result = Schema(EmptyDict)

C2_Witness ==
    OnlyTarGz /\ pc = "done" /\ skipped_files_count = 1 /\ result.kind = "schema"

MetadataColumns ==
    { SDC_SOURCE_BUCKET_COLUMN, SDC_SOURCE_FILE_COLUMN, SDC_SOURCE_LINENO_COLUMN,
      SDC_EXTRA_COLUMN }

\* C3, as stated: every schema the run returns has the four metadata fields in
\* its properties, also when no row was sampled.
C3_Original ==
    result.kind = "schema" => MetadataColumns \subseteq DOMAIN result.properties

\* C3, amended: a schema returned after at least one row was sampled has the four
\* metadata fields in its properties, with the fixed type even when a sampled
\* field has the same name, beside every sampled field; a schema returned when
\* no row was sampled has empty properties.
C3_MetadataWhenSampled ==
    result.kind = "schema" =>
        IF samples # << >>
        THEN /\ DOMAIN result.properties = MetadataColumns \cup AllKeys(samples)
             /\ \A c \in MetadataColumns :
                    result.properties[c].d["type"] = metadata_schema[c].d["type"]
        ELSE result.properties = EmptyDict

C3_Witness ==
    /\ result.kind = "schema"
    /\ SDC_EXTRA_COLUMN \in AllKeys(samples)
    /\ skipped_files_count > skipped_at_start


\* the files the filter would yield from the objects b, given the window test
FilesIn(b, inWindow(_)) ==
    LET keep(o) == /\ Size(o.Key) > 0
                   /\ Matches(table_spec.search_pattern, o.Key)
                   /\ inWindow(o.LastModified)
        kept == SelectSeq(b, keep)
    IN  [i \in 1..Len(kept) |->
            [key |-> kept[i].Key, last_modified |-> kept[i].LastModified]]

SinceInclusive(t) ==
    /\ (config.since = << >> \/ config.since[1] <= t)
    /\ (config.until = << >> \/ t < config.until[1])

SinceExclusive(t) ==
    /\ (config.since = << >> \/ config.since[1] < t)
    /\ (config.until = << >> \/ t < config.until[1])

\* C5, as stated: of the objects it has read, the filter has yielded, in listing
\* order, exactly the non-empty ones whose key matches the pattern and whose
\* last-modified time t has since <= t < until (an absent bound is no limit).
C5_Original ==
    pc \in {"list", "select", "sample", "done"} =>
        yielded = FilesIn(SubSeq(bucket, 1, li - 1), SinceInclusive)

\* C5, amended: of the objects it has read, the filter has yielded, in listing
\* order, exactly the non-empty ones whose key matches the pattern and whose
\* last-modified time t has since < t < until (an absent bound is no limit): an
\* object modified exactly at since is not yielded, nor one modified at until.
C5_YieldsStrictWindow ==
    pc \in {"list", "select", "sample", "done"} =>
        yielded = FilesIn(SubSeq(bucket, 1, li - 1), SinceExclusive)

C5_Witness ==
    /\ li = Len(bucket) + 1
    /\ yielded # << >>
    /\ config.since # << >>
    /\ config.until # << >>
    /\ \E i \in 1..Len(bucket) :
          /\ Size(bucket[i].Key) > 0
          /\ Matches(table_spec.search_pattern, bucket[i].Key)
          /\ bucket[i].LastModified \in {config.since[1], config.until[1]}

----------------------------------------------------------------------------
(* Properties of the orchestrator, read off the log of the candidates handled *)

\* s3_path and extension of a candidate as sample_files computes them
CandidatePath(f) ==
    IF f.type = "unzipped" THEN Append(f.s3_path, f.file_handle.name) ELSE f.s3_path

CandidateExtension(f) ==
    IF f.type = "unzipped" THEN Extension(f.file_handle.name) ELSE f.extension

\* decoding the candidate fails with a format-mismatch error: the CSV decoder meets
\* undecodable content before it has yielded max_records rows, or the JSONL
\* decoder meets an unparseable sampled line among the rows the key check reads
DecodeFails(f) ==
    LET rows == f.file_handle.body.rows
        gen(fmt) == Generator(fmt, rows, config.sample_rate, CandidatePath(f))
    IN  \/ /\ CandidateExtension(f) \in {"csv", "txt"}
           /\ f.file_handle.body.hdr
           /\ Pull(gen("csv"), config.max_records).err # NoError
        \/ /\ CandidateExtension(f) = "jsonl"
           /\ Pull(gen("jsonl"), JSONL_CHECK_ROWS + 1).err # NoError

\* C4: when decoding a candidate fails with a format-mismatch error, the skip
\* counter grows by exactly one over that candidate, no error reaches the caller
\* from it, and the candidates after it are handled in order: the run goes on to
\* the next candidate, and ends only after the last selected candidate or on an
\* error another candidate raised.
C4_DecodeFailureCaught ==
    \A j \in 1..Len(log) :
        /\ log[j].index = j
        /\ log[j].s3_path = CandidatePath(sampled_files[j])
        /\ DecodeFails(sampled_files[j]) =>
              /\ log[j].skipped_after = log[j].skipped_before + 1
              /\ log[j].raised = NoError
              /\ j = Len(log) =>
                    /\ result.kind # "error"
                    /\ si = j + 1
                    /\ \/ pc = "sample"
                       \/ pc = "done" /\ j = Selected(sampled_files, config.max_files)

C4_Witness ==
    \E j \in 1..Len(log) :
        /\ DecodeFails(sampled_files[j])
        /\ log[j].rows # << >>
        /\ j < Len(log)
        /\ log[j + 1].rows # << >>


GzName(f) == f.file_handle.body.gzname

\* C7, as stated: a gzip candidate whose stream carries no original filename,
\* whether the name lookup raises or returns an empty name, yields no row, raises
\* the skip counter by exactly one and raises no error.
C7_Original ==
    \A j \in 1..Len(log) :
        (/\ CandidateExtension(sampled_files[j]) = "gz"
         /\ GzName(sampled_files[j]).status \in {"AttributeError", "empty"}) =>
            /\ log[j].rows = << >>
            /\ log[j].skipped_after = log[j].skipped_before + 1
            /\ log[j].raised = NoError

\* C7, amended: a gzip candidate whose name lookup raises AttributeError yields no
\* row, raises the skip counter by exactly one and raises no error; one whose
\* name lookup returns an empty name yields no row, leaves the skip counter as it
\* was and raises the "file has some error(s)" exception, which ends the run.
C7_UnnamedGz ==
    \A j \in 1..Len(log) :
        CandidateExtension(sampled_files[j]) = "gz" =>
            /\ GzName(sampled_files[j]).status = "AttributeError" =>
                  /\ log[j].rows = << >>
                  /\ log[j].skipped_after = log[j].skipped_before + 1
                  /\ log[j].raised = NoError
                  /\ log[j].caught = NoError
            /\ GzName(sampled_files[j]).status = "empty" =>
                  /\ log[j].rows = << >>
                  /\ log[j].skipped_after = log[j].skipped_before
                  /\ log[j].raised = "GzFileError"
                  /\ j = Len(log)
                  /\ pc = "done"
                  /\ result = Failed("GzFileError")

C7_Witness ==
    /\ \E j \in 1..Len(log) :
          /\ CandidateExtension(sampled_files[j]) = "gz"
          /\ GzName(sampled_files[j]).status = "AttributeError"
    /\ \E j \in 1..Len(log) :
          /\ CandidateExtension(sampled_files[j]) = "gz"
          /\ GzName(sampled_files[j]).status = "empty"

\* the decoder an extension selects
DecoderOf(extension) ==
    CASE extension \in {"csv", "txt"} -> "csv"
      [] extension = "jsonl" -> "jsonl"
      [] extension = "parquet" -> "parquet"
      [] OTHER -> "none"

\* C8: a gzip candidate whose embedded name is present and does not end in a
\* compressed extension is decoded by the inner name's decoder: the rows yielded
\* are those of the inner file at the sample rate (max_records at most), no
\* error is raised and the skip counter does not change.
C8_NamedGzDecoded ==
    \A j \in 1..Len(log) :
        LET f == sampled_files[j]
            inner == GzName(f).name
            fmt == DecoderOf(Extension(inner))
        IN  (/\ CandidateExtension(f) = "gz"
             /\ GzName(f).status = "name"
             /\ ~EndsWithGz(inner)
             /\ fmt \in {"csv", "jsonl"}) =>
                /\ log[j].raised = NoError
                /\ log[j].skipped_after = log[j].skipped_before
                /\ log[j].rows =
                      Pull(Generator(fmt, f.file_handle.body.rows, config.sample_rate,
                                     Append(CandidatePath(f), inner)),
                           config.max_records).out

\* the first n rows the JSONL decoder samples from the candidate
SampledRows(f, n) ==
    Pull(Generator("jsonl", f.file_handle.body.rows, config.sample_rate,
                   CandidatePath(f)), n).out

Declared == table_spec.key_properties \cup table_spec.date_overrides

\* C9: for a JSONL candidate that decodes and has a sampled row, under a table
\* spec that declares key_properties or date_overrides, the data-quality error is
\* raised exactly when a declared field is a key of none of the first 5000
\* sampled rows; the error ends the run; a CSV candidate never raises it.
C9_KeyCheckFirst5000 ==
    \A j \in 1..Len(log) :
        LET f == sampled_files[j]
        IN  /\ (/\ CandidateExtension(f) = "jsonl"
                /\ ~DecodeFails(f)
                /\ SampledRows(f, 1) # << >>
                /\ Declared # {}) =>
                   /\ log[j].raised = "DataQualityError" <=>
                         ~(Declared \subseteq AllKeys(SampledRows(f, JSONL_CHECK_ROWS)))
                   /\ log[j].raised = "DataQualityError" =>
                         pc = "done" /\ result = Failed("DataQualityError")
            /\ CandidateExtension(f) \in {"csv", "txt"} =>
                   log[j].raised # "DataQualityError"

\* the position in the filter's output of the object a candidate comes from
RECURSIVE YieldIndex(_, _)
YieldIndex(f, i) ==
    IF i > Len(yielded) THEN 0
    ELSE IF Path(yielded[i].key) = f.s3_path THEN i
    ELSE YieldIndex(f, i + 1)

RECURSIVE Rows(_, _)
Rows(entries, n) == IF n = 0 THEN << >> ELSE Rows(entries, n - 1) \o entries[n].rows

\* C10: the orchestrator handles max_files candidates at most, each yielding
\* max_records rows at most, so the run yields max_files * max_records rows at
\* most; the candidates handled are the first of the selected list, which follows
\* the order in which the filter yielded their bucket objects, and the rows of
\* the run are the rows of the candidates in that order.
C10_BoundedSampling ==
    /\ Len(log) <= config.max_files
    /\ Len(log) <= Len(sampled_files)
    /\ \A j \in 1..Len(log) :
          /\ Len(log[j].rows) <= config.max_records
          /\ log[j].index = j
          /\ log[j].s3_path = CandidatePath(sampled_files[j])
    /\ \A a, b \in 1..Len(sampled_files) :
          a < b => /\ YieldIndex(sampled_files[a], 1) >= 1
                   /\ YieldIndex(sampled_files[a], 1) <= YieldIndex(sampled_files[b], 1)
    /\ samples = Rows(log, Len(log))
    /\ Len(samples) <= config.max_files * config.max_records

C10_Witness ==
    /\ pc = "done"
    /\ result.kind = "schema"
    /\ Len(sampled_files) > config.max_files
    /\ Len(log) = config.max_files
    /\ Len(samples) = config.max_files * config.max_records
    /\ config.max_files > 1
    /\ skipped_files_count > skipped_at_start

----------------------------------------------------------------------------
(* Properties of a decoder run on its own (specification SpecDec) *)

\* the 1-based positions, among the first n rows, of the rows that hold a record
\* and whose 0-based index is a multiple of the sample rate
SampledLines(rows, n, sample_rate) ==
    SelectSeq([j \in 1..n |-> j],
              LAMBDA j : rows[j].kind = "rec" /\ (j - 1) % sample_rate = 0)

\* C6: after the CSV or JSONL decoder has handled n rows of its input at sample
\* rate r, its row counter is n (one step for each row, yielded or not) and it
\* has yielded, in input order, exactly the rows that are not blank (nor, for
\* JSONL, an empty structure) and whose 0-based index is a multiple of r.
C6_EveryRthRow ==
    (pc = "decode" /\ dec.fmt \in {"csv", "jsonl"}) =>
        /\ dec.st.current_row = dec.i
        /\ [k \in 1..Len(dec.st.out) |-> dec.st.out[k].v] =
              SampledLines(dec.rows, dec.i, dec.sample_rate)
        /\ \A k \in 1..Len(dec.st.out) :
              dec.st.out[k].keys = dec.rows[dec.st.out[k].v].keys
                                      \ (IF dec.fmt = "csv" THEN {SDC_EXTRA_COLUMN} ELSE {})

C6_Witness ==
    /\ pc = "decode"
    /\ dec.fmt = "jsonl"
    /\ dec.sample_rate > 1
    /\ dec.i = Len(dec.rows)
    /\ Len(dec.rows) > 1
    /\ dec.rows[1].kind \in {"blank", "empty"}
    /\ Len(dec.st.out) = 1
    /\ dec.st.out[1].v = 1 + dec.sample_rate


\* C11: after the Parquet decoder has handled n rows of a file, across its row
\* groups and batches, at sample rate r, it has yielded, in file order, exactly
\* the rows whose 0-based index is a multiple of r; over a whole file of n rows
\* that is ceil(n / r) rows.
C11_ParquetEveryRthRow ==
    (pc = "decode" /\ dec.fmt = "parquet") =>
        /\ [k \in 1..Len(dec.st.out) |-> dec.st.out[k].v] =
              SampledLines(dec.rows, dec.i, dec.sample_rate)
        /\ dec.i = Len(dec.rows) =>
              Len(dec.st.out) =
                  (Len(dec.rows) + dec.sample_rate - 1) \div dec.sample_rate

====
